---- MODULE Spec2Model ----
(***************************************************************************)
(* Math Routing Agent: the request pipeline of MathRoutingAgent            *)
(* (src/agents/routing_agent.py) with its guardrails, the vector store     *)
(* lookup, the web-search capability and the generative-model client.      *)
(*                                                                         *)
(* Conventions.                                                            *)
(*  - A text is a sequence of tokens.  A token is a word (letters or       *)
(*    digits) or a single non-word character; the text is the              *)
(*    concatenation of its tokens, so two neighbouring word tokens would   *)
(*    read as one word and the inputs always separate words by a non-word  *)
(*    token.  Matching is case-insensitive in the source; tokens stand for *)
(*    their case-folded form.                                              *)
(*  - Scores are in hundredths: 81 stands for 0.81.  The float sums the    *)
(*    source computes (0.2 + 0.2 + 0.2 = 0.6000000000000001) fall on the   *)
(*    same side of every threshold as the exact sums used here.            *)
(***************************************************************************)
EXTENDS Integers, Sequences, FiniteSets, TLC

-----------------------------------------------------------------------------
(* Configuration: src/config.py *)

max_input_length == 1000
max_output_length == 2000

-----------------------------------------------------------------------------
(* Texts *)

\* A word of exactly max_input_length letters, to reach the length limit.
LongWord == "z*1000"

WordTokens ==
    { "what", "is", "s", "an", "the", "of", "how", "to", "2", "4", "x",
      "prove", "derive", "show", "that", "demonstrate",
      "integral", "derivative", "limit", "series", "convergence",
      "matrix", "vector", "eigenvalue", "determinant",
      "probability", "distribution", "hypothesis", "statistical",
      "optimization", "constraint", "lagrange", "calculus", "variations",
      "complex", "imaginary", "real", "analysis", "topology",
      "equation", "function", "formula", "theorem", "lemma",
      "hack", "exploit", "bypass", "cheat", "illegal", "harmful", "dangerous",
      "script", "javascript", "data", "text", "html",
      "I", "apologize", "but", "couldn", "t", "find", "a", "suitable",
      "solution", "answer", "step", "therefore",
      "for", "your", "question", "Please", "try", "rephrasing", "or",
      "providing", "more", "specific", "details",
      "Answer", "not", "explicitly", "stated", "in", "sources",
      "Final", "clearly", "identified",
      LongWord }

SpaceTokens == { " ", "\n" }

\* The characters _sanitize_input and _sanitize_output delete.
UnsafeChars == { "<", ">", "\"", "'" }

IsWord(tok) == tok \in WordTokens

\* len(): the number of characters of a token.
CharLen(tok) ==
    CASE tok = LongWord -> max_input_length
      [] tok \in { "s", "x", "2", "4", "I", "t", "a" } -> 1
      [] tok \in { "is", "an", "of", "to", "or", "in" } -> 2
      [] tok \in { "the", "how", "but", "for", "try", "not" } -> 3
      [] tok \in { "what", "show", "that", "real", "hack", "data", "text",
                   "html", "find", "step", "your", "more" } -> 4
      [] tok \in { "prove", "limit", "lemma", "cheat", "Final" } -> 5
      [] tok \in { "derive", "series", "matrix", "vector", "bypass",
                   "script", "couldn", "answer", "Please", "Answer",
                   "stated" } -> 6
      [] tok \in { "complex", "formula", "theorem", "exploit", "illegal",
                   "harmful", "details", "sources", "clearly" } -> 7
      [] tok \in { "integral", "lagrange", "analysis", "topology",
                   "equation", "function", "calculus", "suitable",
                   "solution", "question", "specific" } -> 8
      [] tok \in { "imaginary", "dangerous", "apologize", "therefore",
                   "providing" } -> 9
      [] tok \in { "derivative", "eigenvalue", "hypothesis", "constraint",
                   "variations", "javascript", "rephrasing", "explicitly",
                   "identified" } -> 10
      [] tok \in { "convergence", "determinant", "probability",
                   "statistical", "demonstrate" } -> 11
      [] tok \in { "distribution", "optimization" } -> 12
      [] OTHER -> 1

RECURSIVE TextLen(_)
TextLen(text) ==
    IF text = << >> THEN 0 ELSE CharLen(Head(text)) + TextLen(Tail(text))

\* pat occurs in text starting at token i.
OccursAt(text, i, pat) ==
    /\ i >= 1
    /\ i + Len(pat) - 1 <= Len(text)
    /\ \A k \in 1..Len(pat) : text[i + k - 1] = pat[k]

\* r'\b(pat)\b' matches at token i: pat occurs there between word boundaries.
WordMatchAt(text, i, pat) ==
    /\ OccursAt(text, i, pat)
    /\ (i = 1 \/ ~IsWord(text[i - 1]))
    /\ (i + Len(pat) - 1 = Len(text) \/ ~IsWord(text[i + Len(pat)]))

\* re.search(r'\b(p1|p2|...)\b', text, re.IGNORECASE) is not None
SearchWords(text, pats) ==
    \E i \in 1..Len(text) : \E pat \in pats : WordMatchAt(text, i, pat)

\* len(re.findall(r'\b(p1|p2|...)\b', text, re.IGNORECASE)); the alternatives
\* used are single words, so matches never overlap.
CountWords(text, pats) ==
    Cardinality({ i \in 1..Len(text) : \E pat \in pats : WordMatchAt(text, i, pat) })

\* re.search of a pattern that is a plain substring (no \b).
SearchSub(text, pat) == \E i \in 1..Len(text) : OccursAt(text, i, pat)

RECURSIVE DropUnsafe(_)
DropUnsafe(text) ==
    IF text = << >> THEN << >>
    ELSE IF Head(text) \in UnsafeChars THEN DropUnsafe(Tail(text))
    ELSE << Head(text) >> \o DropUnsafe(Tail(text))

\* re.sub(r'\s+', ' ', text): every run of whitespace becomes one space.
RECURSIVE CollapseSpace(_)
CollapseSpace(text) ==
    IF text = << >> THEN << >>
    ELSE IF Head(text) \in SpaceTokens
         THEN IF Len(text) > 1 /\ text[2] \in SpaceTokens
              THEN CollapseSpace(Tail(text))
              ELSE << " " >> \o CollapseSpace(Tail(text))
         ELSE << Head(text) >> \o CollapseSpace(Tail(text))

\* str.strip() after the collapse: at most one space at either end.
Strip(text) ==
    LET a == IF text # << >> /\ Head(text) \in SpaceTokens THEN Tail(text) ELSE text
    IN  IF a # << >> /\ a[Len(a)] \in SpaceTokens THEN SubSeq(a, 1, Len(a) - 1) ELSE a

-----------------------------------------------------------------------------
(* Input guardrail: src/guardrails/input_guardrails.py *)

allowed_topics ==
    { "mathematics", "algebra", "calculus", "geometry", "statistics", "trigonometry" }

\* r'<script.*?>.*?</script>': "<script", later ">", later "</script>", with
\* no line break in between ('.' does not match one).
ScriptInjection(text) ==
    \E i \in 1..Len(text) :
        /\ OccursAt(text, i, << "<", "script" >>)
        /\ \E j \in (i + 2)..Len(text) :
              /\ text[j] = ">"
              /\ \E k \in (j + 1)..Len(text) :
                    /\ OccursAt(text, k, << "<", "/", "script", ">" >>)
                    /\ \A n \in i..k : text[n] # "\n"

JavascriptInjection(text) == SearchSub(text, << "javascript", ":" >>)

DataUriInjection(text) == SearchSub(text, << "data", ":", "text", "/", "html" >>)

\* InputGuardrails.potentially_harmful_patterns, any of them matching.
potentially_harmful(text) ==
    \/ SearchWords(text, { << "hack" >>, << "exploit" >>, << "bypass" >>, << "cheat" >>,
                           << "illegal" >>, << "harmful" >>, << "dangerous" >> })
    \/ ScriptInjection(text)
    \/ JavascriptInjection(text)
    \/ DataUriInjection(text)

sanitize_input(input_text) == Strip(CollapseSpace(DropUnsafe(input_text)))

OperatorChars ==
    { "+", "-", "*", "/", "=", "<", ">", "(", ")", "{", "}", "[", "]", "^" }

DigitWords == { "2", "4" }

\* The single letters of the variable pattern, matched case-insensitively.
LetterWords == { "x", "s", "t", "a", "I" }

\* len(re.findall(pattern, text, re.IGNORECASE)) for the six math_patterns.
math_pattern_matches(text) ==
    << CountWords(text, { << "solve" >>, << "calculate" >>, << "find" >>, << "compute" >>,
                          << "evaluate" >>, << "integrate" >>, << "differentiate" >>,
                          << "derive" >> }),
       CountWords(text, { << "equation" >>, << "formula" >>, << "function" >>,
                          << "matrix" >>, << "vector" >>, << "limit" >>,
                          << "derivative" >>, << "integral" >> }),
       CountWords(text, { << "algebra" >>, << "calculus" >>, << "geometry" >>,
                          << "trigonometry" >>, << "statistics" >>, << "probability" >> }),
       Cardinality({ i \in 1..Len(text) : text[i] \in OperatorChars }),
       Cardinality({ i \in 1..Len(text) : text[i] \in DigitWords }),
       CountWords(text, { << w >> : w \in LetterWords }) >>

Min(a, b) == IF a <= b THEN a ELSE b

RECURSIVE SumSeq(_)
SumSeq(s) == IF s = << >> THEN 0 ELSE Head(s) + SumSeq(Tail(s))

\* _calculate_math_score, in units of 1/(10 * number of patterns): each
\* pattern adds min(matches / 10, 1.0) and the sum is divided by the number
\* of patterns, so the result is MathScoreTenths / 10 / 6.
MathScoreTenths(text) ==
    LET m == math_pattern_matches(text)
    IN  SumSeq([ i \in 1..Len(m) |-> Min(m[i], 10) ])

\* math_score > 0.3, that is MathScoreTenths / 60 > 3 / 10.
MathScoreAboveThreshold(text) == MathScoreTenths(text) * 10 > 3 * 60

\* math_score in hundredths, rounded down.
calculate_math_score(text) == Min((MathScoreTenths(text) * 100) \div 60, 100)

topic_order ==
    << "algebra", "calculus", "geometry", "trigonometry", "statistics", "linear_algebra" >>

topic_keywords(topic) ==
    CASE topic = "algebra" -> { "equation", "variable", "solve", "factor", "polynomial" }
      [] topic = "calculus" -> { "derivative", "integral", "limit", "differentiate", "integrate" }
      [] topic = "geometry" -> { "triangle", "circle", "angle", "area", "perimeter", "volume" }
      [] topic = "trigonometry" -> { "sin", "cos", "tan", "angle", "trigonometric" }
      [] topic = "statistics" -> { "mean", "median", "mode", "probability", "distribution" }
      [] topic = "linear_algebra" -> { "matrix", "vector", "determinant", "eigenvalue" }

\* keyword in text_lower: a plain substring test.  Among the tokens used, a
\* keyword occurs only as a token of its own, or inside these tokens.
ContainsKeyword(tok, keyword) ==
    \/ tok = keyword
    \/ keyword = "tan" /\ tok = "constraint"
    \/ keyword = "mean" /\ tok = "means"

topic_score(text, topic) ==
    Cardinality({ kw \in topic_keywords(topic) :
                    \E i \in 1..Len(text) : ContainsKeyword(text[i], kw) })

\* max(topic_scores, key=topic_scores.get): the first topic, in table order,
\* with the largest score; the table is never empty.
detect_math_topic(text) ==
    LET best == CHOOSE i \in 1..Len(topic_order) :
                  /\ \A j \in 1..Len(topic_order) :
                        topic_score(text, topic_order[j]) <= topic_score(text, topic_order[i])
                  /\ \A j \in 1..(i - 1) :
                        topic_score(text, topic_order[j]) < topic_score(text, topic_order[i])
    IN  topic_order[best]

\* A variant of validate_input that also rejects a text of weak
\* math-likelihood.
validate_input_rejecting_weak(user_input) ==
    IF \/ TextLen(user_input) > max_input_length
       \/ potentially_harmful(user_input)
       \/ ~MathScoreAboveThreshold(sanitize_input(user_input))
    THEN [ is_valid |-> FALSE, sanitized_input |-> << >>, confidence_score |-> 0,
           detected_topic |-> "", warnings |-> << "Rejected" >> ]
    ELSE [ is_valid |-> TRUE, sanitized_input |-> sanitize_input(user_input),
           confidence_score |-> calculate_math_score(sanitize_input(user_input)),
           detected_topic |-> detect_math_topic(sanitize_input(user_input)),
           warnings |-> << >> ]

validate_input(user_input) ==
    IF TextLen(user_input) > max_input_length
    THEN [ is_valid |-> FALSE, sanitized_input |-> << >>, confidence_score |-> 0,
           detected_topic |-> "", warnings |-> << "Input too long" >> ]
    ELSE IF potentially_harmful(user_input)
    THEN [ is_valid |-> FALSE, sanitized_input |-> << >>, confidence_score |-> 0,
           detected_topic |-> "", warnings |-> << "Potentially harmful content detected" >> ]
    ELSE
      LET sanitized == sanitize_input(user_input)
          mathy == MathScoreAboveThreshold(sanitized)
          topic == IF mathy THEN detect_math_topic(sanitized) ELSE "general"
          w1 == IF mathy THEN << >> ELSE << "Input may not be mathematical in nature" >>
          w2 == IF topic \notin allowed_topics /\ topic # "general"
                THEN << "Topic may not be supported" >> ELSE << >>
      IN  [ is_valid |-> TRUE, sanitized_input |-> sanitized,
            confidence_score |-> IF mathy THEN calculate_math_score(sanitized) ELSE 10,
            detected_topic |-> topic, warnings |-> w1 \o w2 ]

-----------------------------------------------------------------------------
(* Vector store: src/knowledge_base/vector_store.py *)

\* The documents of the knowledge base as one lookup sees them: sims[i] is
\* the cosine similarity, in hundredths, of document i to the query.
\* Keeps the documents with similarity >= score_threshold, in document order.
RECURSIVE AboveThreshold(_, _, _)
AboveThreshold(sims, from, score_threshold) ==
    IF from > Len(sims) THEN << >>
    ELSE (IF sims[from] >= score_threshold
          THEN << [ id |-> from, score |-> sims[from] ] >> ELSE << >>)
         \o AboveThreshold(sims, from + 1, score_threshold)

\* Insert a result into a list ranked by descending score, after the entries
\* of equal score (list.sort is stable).
RECURSIVE InsertRanked(_, _)
InsertRanked(ranked, e) ==
    IF ranked = << >> THEN << e >>
    ELSE IF Head(ranked).score >= e.score
         THEN << Head(ranked) >> \o InsertRanked(Tail(ranked), e)
         ELSE << e >> \o ranked

RECURSIVE SortByScore(_)
SortByScore(results) ==
    IF results = << >> THEN << >>
    ELSE InsertRanked(SortByScore(SubSeq(results, 1, Len(results) - 1)),
                      results[Len(results)])

Take(s, n) == SubSeq(s, 1, Min(n, Len(s)))

\* VectorStore.search on a reachable collection, and _search_fallback on the
\* in-memory vectors: the results at or above the threshold, ranked, cut to
\* limit.
vector_search(sims, limit, score_threshold) ==
    Take(SortByScore(AboveThreshold(sims, 1, score_threshold)), limit)

-----------------------------------------------------------------------------
(* Routing policy: src/agents/routing_agent.py *)

KNOWLEDGE_BASE == "knowledge_base"
WEB_SEARCH == "web_search"
REJECT == "reject"

\* The arguments of the lookup _make_routing_decision issues.
kb_limit == 3
kb_score_threshold == 70

high_confidence_score == 80
moderate_score == 50
complexity_limit == 60
web_search_confidence == 70

complexity_indicators ==
    << { << "prove" >>, << "derive" >>, << "show", " ", "that" >>, << "demonstrate" >> },
       { << "integral" >>, << "derivative" >>, << "limit" >>, << "series" >>,
         << "convergence" >> },
       { << "matrix" >>, << "vector" >>, << "eigenvalue" >>, << "determinant" >> },
       { << "probability" >>, << "distribution" >>, << "hypothesis" >>,
         << "statistical" >> },
       { << "optimization" >>, << "constraint" >>, << "lagrange" >>,
         << "calculus", " ", "of", " ", "variations" >> },
       { << "complex" >>, << "imaginary" >>, << "real", " ", "analysis" >>,
         << "topology" >> } >>

math_concept_words ==
    { << "equation" >>, << "function" >>, << "formula" >>, << "theorem" >>, << "lemma" >> }

\* A variant of _assess_question_complexity that weighs an indicator
\* pattern 0.3 instead of 0.2.
assess_question_complexity_heavier(question) ==
    LET hits == Cardinality({ i \in 1..Len(complexity_indicators) :
                                SearchWords(question, complexity_indicators[i]) })
        math_concepts == CountWords(question, math_concept_words)
    IN  Min(hits * 30 + Min(math_concepts * 10, 30), 100)

\* _assess_question_complexity: 0.2 for every indicator pattern found, plus
\* min(0.1 * concept words, 0.3), capped at 1.0.
assess_question_complexity(question) ==
    LET hits == Cardinality({ i \in 1..Len(complexity_indicators) :
                                SearchWords(question, complexity_indicators[i]) })
        math_concepts == CountWords(question, math_concept_words)
    IN  Min(hits * 20 + Min(math_concepts * 10, 30), 100)

NoData == [ present |-> FALSE, results |-> << >> ]

RoutingResult(decision, confidence, reasoning, source, data) ==
    [ decision |-> decision, confidence |-> confidence, reasoning |-> reasoning,
      source |-> source, data |-> data ]

NoRouting == RoutingResult("", 0, "", "", NoData)

\* A variant of _make_routing_decision without the high-confidence rule:
\* every match is weighed against the question's complexity.
routing_decision_no_high_rule(question, kb_results) ==
    IF /\ kb_results # << >>
       /\ kb_results[1].score > moderate_score
       /\ assess_question_complexity(question) < complexity_limit
    THEN RoutingResult(KNOWLEDGE_BASE, kb_results[1].score,
                       "Moderate match in knowledge base for simple question",
                       "knowledge_base", [ present |-> TRUE, results |-> kb_results ])
    ELSE RoutingResult(WEB_SEARCH, web_search_confidence,
                       "Question requires web search for comprehensive answer",
                       "web_search", NoData)

\* A variant of _make_routing_decision whose comparisons are not strict.
routing_decision_not_strict(question, kb_results) ==
    IF kb_results # << >> /\ kb_results[1].score >= high_confidence_score
    THEN RoutingResult(KNOWLEDGE_BASE, kb_results[1].score,
                       "High confidence match found in knowledge base", "knowledge_base",
                       [ present |-> TRUE, results |-> kb_results ])
    ELSE IF /\ kb_results # << >>
            /\ kb_results[1].score >= moderate_score
            /\ assess_question_complexity(question) <= complexity_limit
    THEN RoutingResult(KNOWLEDGE_BASE, kb_results[1].score,
                       "Moderate match in knowledge base for simple question",
                       "knowledge_base", [ present |-> TRUE, results |-> kb_results ])
    ELSE RoutingResult(WEB_SEARCH, web_search_confidence,
                       "Question requires web search for comprehensive answer",
                       "web_search", NoData)

\* A variant of _make_routing_decision that rejects a question the knowledge
\* base has nothing for.
routing_decision_rejecting(question, kb_results) ==
    IF kb_results = << >>
    THEN RoutingResult(REJECT, 0, "No match", "", NoData)
    ELSE RoutingResult(KNOWLEDGE_BASE, kb_results[1].score,
                       "High confidence match found in knowledge base", "knowledge_base",
                       [ present |-> TRUE, results |-> kb_results ])

\* _make_routing_decision once the lookup has returned kb_results.
routing_decision(question, kb_results) ==
    IF kb_results # << >> /\ kb_results[1].score > high_confidence_score
    THEN RoutingResult(KNOWLEDGE_BASE, kb_results[1].score,
                       "High confidence match found in knowledge base", "knowledge_base",
                       [ present |-> TRUE, results |-> kb_results ])
    ELSE IF /\ kb_results # << >>
            /\ kb_results[1].score > moderate_score
            /\ assess_question_complexity(question) < complexity_limit
    THEN RoutingResult(KNOWLEDGE_BASE, kb_results[1].score,
                       "Moderate match in knowledge base for simple question",
                       "knowledge_base", [ present |-> TRUE, results |-> kb_results ])
    ELSE RoutingResult(WEB_SEARCH, web_search_confidence,
                       "Question requires web search for comprehensive answer",
                       "web_search", NoData)

-----------------------------------------------------------------------------
(* Output guardrail: src/guardrails/output_guardrails.py *)

\* OutputGuardrails.inappropriate_patterns, any of them matching.
inappropriate(text) ==
    \/ SearchWords(text, { << "cheat" >>, << "hack" >>, << "illegal" >>, << "harmful" >>,
                           << "dangerous" >> })
    \/ ScriptInjection(text)
    \/ JavascriptInjection(text)
    \/ DataUriInjection(text)

sanitize_output(output_text) == Strip(CollapseSpace(DropUnsafe(output_text)))

ArithmeticChars == { "=", "+", "-", "*", "/" }

OrdinalWords ==
    { << "first" >>, << "second" >>, << "third" >>, << "next" >>, << "finally" >> }

ConnectiveWords ==
    { << "therefore" >>, << "thus" >>, << "hence" >>, << "so" >>, << "because" >>,
      << "since" >> }

CountChars(text, chars) == Cardinality({ i \in 1..Len(text) : text[i] \in chars })

\* Matches of r'step \d+' (no word boundary asked for).
StepMarkers(text) ==
    { i \in 1..Len(text) :
        /\ OccursAt(text, i, << "step", " " >>)
        /\ i + 2 <= Len(text) /\ text[i + 2] \in DigitWords }

\* Matches of r'\b(step \d+:)\b': after the colon a word has to follow.
StepColonMarkers(text) ==
    { i \in StepMarkers(text) :
        /\ (i = 1 \/ ~IsWord(text[i - 1]))
        /\ i + 4 <= Len(text) /\ text[i + 3] = ":" /\ IsWord(text[i + 4]) }

\* Matches of r'\$\$.*?\$\$', found left to right without overlap; with at
\* most three "$$" in a text there is at most one.
LatexBlocks(text) ==
    IF \E i \in 1..Len(text) :
         /\ text[i] = "$$"
         /\ \E j \in (i + 1)..Len(text) :
               text[j] = "$$" /\ \A n \in i..j : text[n] # "\n"
    THEN 1 ELSE 0

WePhrases(verbs) == { << "we", " ", v >> : v \in verbs }

\* _calculate_confidence_score, in hundredths.
calculate_confidence_score(response) ==
    LET quality ==
          Min((Cardinality(StepColonMarkers(response)) + CountWords(response, OrdinalWords)) * 10, 30)
          + Min(CountWords(response, ConnectiveWords) * 10, 30)
          + Min(CountWords(response, WePhrases({ "have", "get", "obtain", "find" })) * 10, 30)
          + Min(CountChars(response, ArithmeticChars) * 10, 30)
          + Min(LatexBlocks(response) * 10, 30)
        math_score ==
          CountChars(response, ArithmeticChars)
          + CountChars(response, DigitWords)
          + CountWords(response, { << "x" >>, << "a" >> })
        step_score ==
          Cardinality(StepMarkers(response))
          + Cardinality({ i \in 1..Len(response) : \E w \in OrdinalWords : response[i] = w[1] })
    IN  Min(quality + Min(math_score * 5, 40) + Min(step_score * 10, 30), 100)

\* _calculate_educational_value, in hundredths.
calculate_educational_value(response) ==
    LET explained ==
          Min(CountWords(response, ConnectiveWords) * 10, 30)
          + Min(CountWords(response,
                           WePhrases({ "have", "get", "obtain", "find" })
                             \cup { << "we", " ", "can", " ", "see" >> }) * 10, 30)
          + Min(CountWords(response, { << "let", " ", "us" >>, << "first" >>,
                                       << "second" >>, << "third" >> }) * 10, 30)
        notation_score ==
          LatexBlocks(response)
          + CountChars(response, ArithmeticChars)
          + CountChars(response, { "^" })
          + Cardinality({ i \in 1..Len(response) :
                            response[i] = "_" /\ i < Len(response) /\ IsWord(response[i + 1]) })
        step_bonus == IF StepMarkers(response) # { } THEN 30 ELSE 0
    IN  Min(explained + Min(notation_score * 5, 40) + step_bonus, 100)

\* _check_required_elements
check_required_elements(response) ==
    (IF StepMarkers(response) = { } THEN << "Missing: step-by-step solution" >> ELSE << >>)
    \o (IF ~SearchWords(response, { << "because" >>, << "since" >>, << "therefore" >>,
                                    << "thus" >>, << "hence" >> })
        THEN << "Missing: mathematical reasoning" >> ELSE << >>)
    \o (IF ~SearchWords(response, { << "answer" >>, << "result" >>, << "solution" >>,
                                    << "final" >> })
        THEN << "Missing: final answer" >> ELSE << >>)

\* _validate_mathematical_content: its warnings.
validate_mathematical_content(response) ==
    (IF CountChars(response, ArithmeticChars) = 0
     THEN << "No mathematical operations found" >> ELSE << >>)
    \o (IF CountChars(response, DigitWords) = 0
           /\ ~SearchWords(response, { << "x" >>, << "a" >> })
        THEN << "No mathematical variables or numbers found" >> ELSE << >>)
    \o (IF CountChars(response, { "(" }) # CountChars(response, { ")" })
        THEN << "Unbalanced parentheses in mathematical expressions" >> ELSE << >>)

validate_output(response) ==
    IF TextLen(response) > max_output_length
    THEN [ is_valid |-> FALSE, sanitized_output |-> << >>, confidence_score |-> 0,
           educational_value |-> 0, warnings |-> << "Response too long" >> ]
    ELSE IF inappropriate(response)
    THEN [ is_valid |-> FALSE, sanitized_output |-> << >>, confidence_score |-> 0,
           educational_value |-> 0,
           warnings |-> << "Inappropriate content detected in response" >> ]
    ELSE
      LET sanitized == sanitize_output(response)
          confidence == calculate_confidence_score(sanitized)
          value == calculate_educational_value(sanitized)
      IN  [ is_valid |-> confidence > 10 /\ value > 10,
            sanitized_output |-> sanitized,
            confidence_score |-> confidence,
            educational_value |-> value,
            warnings |-> check_required_elements(sanitized)
                           \o validate_mathematical_content(sanitized) ]

-----------------------------------------------------------------------------
(* Fixed texts of the routing agent and of the model client *)

\* src/agents/routing_agent.py, _generate_web_response: no web results.
ApologyText ==
    << "I", " ", "apologize", ",", " ", "but", " ", "I", " ", "couldn", "'", "t", " ",
       "find", " ", "a", " ", "suitable", " ", "solution", " ", "for", " ", "your", " ",
       "question", ".", " ", "Please", " ", "try", " ", "rephrasing", " ", "or", " ",
       "providing", " ", "more", " ", "specific", " ", "details", "." >>

\* src/agents/routing_agent.py, _extract_final_answer: no answer pattern found.
AnswerNotStated ==
    << "Answer", " ", "not", " ", "explicitly", " ", "stated", " ", "in", " ", "the", " ",
       "sources" >>

\* src/llm/gemini_client.py, extract_final_answer: the model call failed.
AnswerNotIdentified ==
    << "Final", " ", "answer", " ", "not", " ", "clearly", " ", "identified" >>

-----------------------------------------------------------------------------
(* Inputs *)

\* A value that is not a string (process_question(None)).
NotAString == << "#None" >>
IsString(v) == v # NotAString

QSimple == << "what", " ", "is", " ", "2", "+", "2", "?" >>
QProveEigen == << "prove", " ", "that", " ", "2", " ", "is", " ", "an", " ", "eigenvalue" >>
QThreeCategories ==
    << "prove", " ", "that", " ", "the", " ", "integral", " ", "of", " ", "the", " ",
       "matrix", " ", "is", " ", "2" >>
QTwoCategoriesTwoConcepts ==
    << "derive", " ", "the", " ", "limit", " ", "of", " ", "the", " ", "function", " ",
       "of", " ", "the", " ", "equation" >>
QConcepts == << "equation", ",", " ", "formula", ",", " ", "theorem", ",", " ", "lemma" >>
QAllCategories ==
    << "show", " ", "that", " ", "the", " ", "series", " ", "of", " ", "the", " ",
       "determinant", " ", "distribution", " ", "constraint", " ", "topology", " ",
       "theorem", " ", "lemma" >>
QQuoted == << " ", "what", "'", "s", " ", "\n", "2", "+", "2", "?", " " >>
QMaxLength == << LongWord >>
QTooLong == << LongWord, "?" >>
QHarmful == << "how", " ", "to", " ", "hack", " ", "the", " ", "equation" >>
QScript == << "<", "script", ">", "x", "<", "/", "script", ">", " ", "2", "+", "2" >>

Questions ==
    { QSimple, QProveEigen, QThreeCategories, QTwoCategoriesTwoConcepts, QConcepts,
      QAllCategories, QQuoted, QMaxLength, QTooLong, QHarmful, QScript }

AnswerPlain == << "x", " ", "=", " ", "4" >>
AnswerQuoted == << "the", " ", "answer", " ", "is", " ", "\"", "4", "\"" >>
AnswerScript == << "<", "script", ">", "x", "<", "/", "script", ">" >>
AnswerTooLong == << LongWord, " ", LongWord, " ", "x" >>

\* Similarities a lookup may see, in hundredths.
SimValues == { 40, 50, 60, 70, 80, 81 }

SeqsUpTo(S, n) == UNION { [ 1..k -> S ] : k \in 0..n }

-----------------------------------------------------------------------------
(* Bounds *)

\* Calls of process_question in one run.
MaxRequests == 2
\* Seconds the clock advances in one run.
MaxClock == 1
\* Calls of process_question in flight at once.
NumSlots == 2
\* Documents of the knowledge base one lookup sees.
MaxDocs == 2
\* Documents the fallback search server returns (it is not bound by max_results).
MaxFallbackDocs == 5

Slots == 1..NumSlots

-----------------------------------------------------------------------------
(* State *)

VARIABLES
    session_counter,  \* MathRoutingAgent.session_counter
    clock,            \* datetime.now(), in seconds
    req,              \* the calls of process_question in flight, by slot
    issued,           \* history: the session ids generated, in order
    guard,            \* a text and what each guardrail returns for it
    fb_file,          \* feedback/feedback_history.json
    systems,          \* the MathLearningSystem objects of the application
    fb_reply,         \* what the last feedback operation returned
    fb_acked          \* history: the feedback records acknowledged, in order

guard_vars == << guard >>
feedback_vars == << fb_file, systems, fb_reply, fb_acked >>
vars == << session_counter, clock, req, issued, guard, fb_file, systems, fb_reply, fb_acked >>

\* No text has been put to the guardrails.
NoGuard == [ text |-> << >>, n |-> 0, checked |-> FALSE ]

\* The MathLearningSystem objects: MathRoutingAgent.__init__ makes one, the
\* lifespan of the application another.
Systems == { "agent", "main" }

\* The log file: missing, empty, not JSON, JSON that is not a list of
\* feedback records, or ("json") the list of records it holds.
FileMissing == [ kind |-> "missing", records |-> << >> ]
FileOf(records) == [ kind |-> "json", records |-> records ]

\* A MathLearningSystem before its constructor has run; dspy stands for its
\* evaluator being a dspy.Predict (DSPY_AVAILABLE) and not None.
NewSystem ==
    [ constructed |-> FALSE, dspy |-> FALSE, feedback_history |-> << >>,
      learning_data |-> << >> ]

NoReply == [ op |-> "", system |-> "", repeated |-> FALSE, value |-> [ none |-> TRUE ] ]

FeedbackIdle ==
    /\ fb_file = FileMissing
    /\ systems = [ i \in Systems |-> NewSystem ]
    /\ fb_reply = NoReply
    /\ fb_acked = << >>

\* WebSearchMCP.search_math_content(question, max_results=3)
web_max_results == 3

NoSession == << 0, 0 >>

\* f"math_session_{self.session_counter}_{datetime.now().strftime(...)}"
\* The id is kept as the pair it is formatted from: the counter in decimal,
\* an underscore, and a timestamp of fixed width, so two ids are the same
\* text exactly when the pairs are equal.
session_id_of(counter, now) == << counter, now >>

NoValidation ==
    [ is_valid |-> FALSE, sanitized_input |-> << >>, confidence_score |-> 0,
      detected_topic |-> "", warnings |-> << >> ]

NoOutputValidation ==
    [ is_valid |-> FALSE, sanitized_output |-> << >>, confidence_score |-> 0,
      educational_value |-> 0, warnings |-> << >> ]

NoWebResults == [ n |-> 0, source |-> "", well_formed |-> TRUE ]

\* MathResponse; built_by stands for solution_steps and explanation, which
\* each constructor fills in its own way.
MathResponse(question, answer, built_by, source, confidence, session_id) ==
    [ question |-> question, answer |-> answer, built_by |-> built_by,
      source |-> source, confidence |-> confidence, session_id |-> session_id ]

NoResponse == MathResponse(<< >>, << >>, "", "", 0, NoSession)

NoCalls == [ kb |-> 0, tavily |-> 0, mcp |-> 0, gemini |-> 0, extract |-> 0 ]

\* The dict process_question returns.
NoResult ==
    [ success |-> FALSE, error |-> "", session_id |-> NoSession, warnings |-> << >>,
      has_response |-> FALSE, response |-> NoResponse, routing_info |-> NoRouting,
      output_warnings |-> << >>, educational_value |-> 0 ]

IdleRequest ==
    [ pc |-> "idle", question |-> << >>, session_id |-> NoSession,
      input_validation |-> NoValidation, kb_query |-> << >>,
      lookup |-> << >>, kb_results |-> << >>, routing_result |-> NoRouting,
      web_results |-> NoWebResults, gemini_success |-> FALSE,
      response |-> NoResponse, result |-> NoResult,
      raised |-> "", calls |-> NoCalls ]

Init ==
    /\ session_counter = 0
    /\ clock = 0
    /\ req = [ r \in Slots |-> IdleRequest ]
    /\ issued = << >>
    /\ guard = NoGuard
    /\ FeedbackIdle

\* The clock advances.
Tick ==
    /\ clock < MaxClock
    /\ clock' = clock + 1
    /\ UNCHANGED << session_counter, req, issued, guard_vars, feedback_vars >>

\* A variant of _generate_session_id that builds the id from the timestamp
\* alone.
generate_session_id_timestamp_only(counter, now) ==
    [ counter |-> counter + 1, id |-> session_id_of(0, now) ]

\* _generate_session_id: the counter after the increment, and the id.
generate_session_id(counter, now) ==
    [ counter |-> counter + 1, id |-> session_id_of(counter + 1, now) ]

\* process_question, line 58: the call starts and takes its session id.  The
\* increment and the formatting run without a suspension point in between.
Start(r, questions) ==
    /\ req[r].pc = "idle"
    /\ session_counter < MaxRequests
    /\ \E q \in questions :
         LET g == generate_session_id(session_counter, clock)
         IN  /\ session_counter' = g.counter
             /\ issued' = Append(issued, g.id)
             /\ req' = [ req EXCEPT ![r] =
                           [ IdleRequest EXCEPT !.pc = "validate", !.question = q,
                                                !.session_id = g.id ] ]
    /\ UNCHANGED << clock, guard_vars, feedback_vars >>

\* A variant of the except clause that leaves the session id out.
failure_result_without_id(session_id) ==
    [ NoResult EXCEPT !.success = FALSE, !.error = "Processing failed" ]

\* The except clause of process_question: the generic failure.
failure_result(session_id) ==
    [ NoResult EXCEPT !.success = FALSE, !.error = "Processing failed",
                      !.session_id = session_id ]

Fail(rq, stage) ==
    [ rq EXCEPT !.pc = "done", !.raised = stage, !.result = failure_result(rq.session_id),
                !.lookup = << >>, !.kb_results = << >> ]

\* The return of process_question when the input guardrail rejects.
rejection_result(input_validation, session_id) ==
    [ NoResult EXCEPT !.success = FALSE, !.error = "Input validation failed",
                      !.warnings = input_validation.warnings,
                      !.session_id = session_id ]

\* A variant of step 1 that does not look at is_valid and goes on to routing.
ValidateInput_no_abort(r) ==
    /\ req[r].pc = "validate"
    /\ req' = [ req EXCEPT ![r] =
                  IF ~IsString(req[r].question) THEN Fail(@, "input_guardrail")
                  ELSE [ @ EXCEPT !.pc = "route",
                                  !.input_validation = validate_input(req[r].question) ] ]
    /\ UNCHANGED << session_counter, clock, issued, guard_vars, feedback_vars >>

\* process_question, step 1: the input guardrail.  len() of a value that is
\* not a string raises.
ValidateInput(r) ==
    /\ req[r].pc = "validate"
    /\ req' = [ req EXCEPT ![r] =
                  IF ~IsString(req[r].question) THEN Fail(@, "input_guardrail")
                  ELSE LET v == validate_input(req[r].question)
                       IN  IF ~v.is_valid
                           THEN [ @ EXCEPT !.pc = "done", !.input_validation = v,
                                           !.result = rejection_result(v, req[r].session_id) ]
                           ELSE [ @ EXCEPT !.pc = "route", !.input_validation = v ] ]
    /\ UNCHANGED << session_counter, clock, issued, guard_vars, feedback_vars >>

\* The return of process_question when the routing decision is REJECT.
question_rejected_result(routing_result, session_id) ==
    [ NoResult EXCEPT !.success = FALSE, !.error = "Question rejected",
                      !.session_id = session_id ]

\* process_question, step 2, once the lookup has returned kb_results;
\* kb_query is the text vector_store.search was called with (line 129), the
\* question as process_question received it.
Routed(rq, sims, kb_results) ==
    LET routing_result == routing_decision(rq.question, kb_results)
    IN  IF routing_result.decision = REJECT
        THEN [ rq EXCEPT !.pc = "done", !.routing_result = routing_result,
                         !.calls.kb = @ + 1, !.kb_query = rq.question,
                         !.result = question_rejected_result(routing_result, rq.session_id) ]
        ELSE [ rq EXCEPT !.pc = "generate", !.lookup = sims, !.kb_results = kb_results,
                         !.routing_result = routing_result, !.calls.kb = @ + 1,
                         !.kb_query = rq.question ]

\* _make_routing_decision with VectorStore.search: the collection answers (or
\* the in-memory vectors do), or the collection is unreachable and there are
\* no in-memory vectors (an empty list), or the fallback raises as well.
RouteDecision(r, simsets) ==
    /\ req[r].pc = "route"
    /\ \/ \E sims \in simsets :
            req' = [ req EXCEPT ![r] =
                       Routed(@, sims, vector_search(sims, kb_limit, kb_score_threshold)) ]
       \/ req' = [ req EXCEPT ![r] = Routed(@, << >>, << >>) ]
       \/ req' = [ req EXCEPT ![r] =
                     Fail([ @ EXCEPT !.calls.kb = @ + 1, !.kb_query = req[r].question ],
                          "kb_lookup") ]
    /\ UNCHANGED << session_counter, clock, issued, guard_vars, feedback_vars >>

\* _generate_kb_response: the payload of the top candidate is read.  A point
\* stored without payload has content None, and kb_data.get raises; the
\* payload's "answer" is whatever was stored (the empty text when absent).
GenerateKB(r, kb_answers) ==
    /\ req[r].pc = "generate"
    /\ req[r].routing_result.decision = KNOWLEDGE_BASE
    /\ \/ \E answer \in kb_answers :
            req' = [ req EXCEPT ![r] =
                       [ @ EXCEPT !.pc = "outguard", !.lookup = << >>, !.kb_results = << >>,
                                  !.response =
                                      MathResponse(req[r].question, answer, "knowledge_base",
                                                   "knowledge_base", req[r].routing_result.confidence,
                                                   req[r].session_id) ] ]
       \/ req' = [ req EXCEPT ![r] = Fail(@, "response_generation") ]
    /\ UNCHANGED << session_counter, clock, issued, guard_vars, feedback_vars >>

\* A variant of search_math_content that goes on to the fallback search
\* when the primary search returned no documents.
TavilySearch_fallback_when_empty(r, counts) ==
    /\ req[r].pc = "generate"
    /\ req[r].routing_result.decision # KNOWLEDGE_BASE
    /\ \/ \E n \in counts :
            /\ n <= web_max_results
            /\ req' = [ req EXCEPT ![r] =
                          [ @ EXCEPT !.pc = IF n = 0 THEN "fallback" ELSE "web_results",
                                     !.lookup = << >>,
                                     !.kb_results = << >>, !.calls.tavily = @ + 1,
                                     !.web_results =
                                         [ n |-> n, source |-> "tavily", well_formed |-> TRUE ] ] ]
       \/ req' = [ req EXCEPT ![r] =
                     [ @ EXCEPT !.pc = "fallback", !.lookup = << >>, !.kb_results = << >>,
                                !.calls.tavily = @ + 1 ] ]
    /\ UNCHANGED << session_counter, clock, issued, guard_vars, feedback_vars >>

\* A variant of search_math_content that calls the primary search again when
\* it raised.
TavilySearch_retrying(r, counts) ==
    /\ req[r].pc = "generate"
    /\ req[r].routing_result.decision # KNOWLEDGE_BASE
    /\ \/ \E n \in counts :
            /\ n <= web_max_results
            /\ req' = [ req EXCEPT ![r] =
                          [ @ EXCEPT !.pc = "web_results", !.lookup = << >>,
                                     !.kb_results = << >>, !.calls.tavily = @ + 1,
                                     !.web_results =
                                         [ n |-> n, source |-> "tavily", well_formed |-> TRUE ] ] ]
       \/ req' = [ req EXCEPT ![r] =
                     [ @ EXCEPT !.pc = IF req[r].calls.tavily = 0 THEN "generate" ELSE "fallback",
                                !.calls.tavily = @ + 1 ] ]
    /\ UNCHANGED << session_counter, clock, issued, guard_vars, feedback_vars >>

\* search_math_content, the try block: the primary search returns (its
\* results filtered and rebuilt by the code), or it raises and the except
\* clause goes on to _fallback_search.
TavilySearch(r, counts) ==
    /\ req[r].pc = "generate"
    /\ req[r].routing_result.decision # KNOWLEDGE_BASE
    /\ \/ \E n \in counts :
            /\ n <= web_max_results
            /\ req' = [ req EXCEPT ![r] =
                          [ @ EXCEPT !.pc = "web_results", !.lookup = << >>,
                                     !.kb_results = << >>, !.calls.tavily = @ + 1,
                                     !.web_results =
                                         [ n |-> n, source |-> "tavily", well_formed |-> TRUE ] ] ]
       \/ req' = [ req EXCEPT ![r] =
                     [ @ EXCEPT !.pc = "fallback", !.lookup = << >>, !.kb_results = << >>,
                                !.calls.tavily = @ + 1 ] ]
    /\ UNCHANGED << session_counter, clock, issued, guard_vars, feedback_vars >>

\* A variant of _fallback_search without its except clause: an exception of
\* the POST propagates.
FallbackSearch_raising(r, counts) ==
    /\ req[r].pc = "fallback"
    /\ \/ \E n \in counts, well_formed \in BOOLEAN :
            /\ n <= MaxFallbackDocs
            /\ (n = 0 => well_formed)
            /\ req' = [ req EXCEPT ![r] =
                          [ @ EXCEPT !.pc = "web_results", !.calls.mcp = @ + 1,
                                     !.web_results =
                                         [ n |-> n, source |-> "mcp",
                                           well_formed |-> well_formed ] ] ]
       \/ req' = [ req EXCEPT ![r] =
                     Fail([ @ EXCEPT !.calls.mcp = @ + 1,
                                     !.web_results =
                                         [ n |-> 0, source |-> "mcp_error",
                                           well_formed |-> TRUE ] ],
                          "response_generation") ]
    /\ UNCHANGED << session_counter, clock, issued, guard_vars, feedback_vars >>

\* _fallback_search: status 200 with the server's "results" as they are, or
\* another status, or an exception; the last two give the empty list.
FallbackSearch(r, counts) ==
    /\ req[r].pc = "fallback"
    /\ \/ \E n \in counts, well_formed \in BOOLEAN :
            /\ n <= MaxFallbackDocs
            /\ (n = 0 => well_formed)
            /\ req' = [ req EXCEPT ![r] =
                          [ @ EXCEPT !.pc = "web_results", !.calls.mcp = @ + 1,
                                     !.web_results =
                                         [ n |-> n, source |-> "mcp",
                                           well_formed |-> well_formed ] ] ]
       \/ req' = [ req EXCEPT ![r] =
                     [ @ EXCEPT !.pc = "web_results", !.calls.mcp = @ + 1,
                                !.web_results =
                                    [ n |-> 0, source |-> "mcp_status", well_formed |-> TRUE ] ] ]
       \/ req' = [ req EXCEPT ![r] =
                     [ @ EXCEPT !.pc = "web_results", !.calls.mcp = @ + 1,
                                !.web_results =
                                    [ n |-> 0, source |-> "mcp_error", well_formed |-> TRUE ] ] ]
    /\ UNCHANGED << session_counter, clock, issued, guard_vars, feedback_vars >>

\* A variant of the no-results response that names no source.
no_results_response_unsourced(question, session_id) ==
    MathResponse(question, ApologyText, "no_results", "", 0, session_id)

\* The response _generate_web_response builds when there are no web results.
no_results_response(question, session_id) ==
    MathResponse(question, ApologyText, "no_results", "web_search", 0, session_id)

\* _generate_web_response, "if not web_results".
NoDocuments(r) ==
    /\ req[r].pc = "web_results"
    /\ req[r].web_results.n = 0
    /\ req' = [ req EXCEPT ![r] =
                  [ @ EXCEPT !.pc = "outguard",
                             !.response = no_results_response(req[r].question, req[r].session_id) ] ]
    /\ UNCHANGED << session_counter, clock, issued, guard_vars, feedback_vars >>

\* _generate_web_response, the loop over web_results: a document without
\* "content", "title" or "url" raises KeyError.
MalformedDocuments(r) ==
    /\ req[r].pc = "web_results"
    /\ req[r].web_results.n > 0
    /\ ~req[r].web_results.well_formed
    /\ req' = [ req EXCEPT ![r] = Fail(@, "response_generation") ]
    /\ UNCHANGED << session_counter, clock, issued, guard_vars, feedback_vars >>

\* GeminiClient.generate_math_response on success
gemini_confidence == 80

\* A variant of the local fallback's confidence without the cap.
local_fallback_confidence_uncapped(n) == n * 20

\* The confidence of the local fallback: min(0.8, len(web_results) * 0.2)
local_fallback_confidence(n) == Min(80, n * 20)

\* A variant of _generate_web_response that consults the model whether or
\* not the search gave documents.
GeminiGenerate_without_documents(r, answers) ==
    /\ req[r].pc = "web_results"
    /\ req[r].web_results.well_formed
    /\ \E answer \in answers \cup { AnswerNotStated } :
         req' = [ req EXCEPT ![r] =
                    [ @ EXCEPT !.pc = "outguard", !.calls.gemini = @ + 1,
                               !.response =
                                   MathResponse(req[r].question, answer, "local_fallback",
                                                "web_search",
                                                local_fallback_confidence(req[r].web_results.n),
                                                req[r].session_id) ] ]
    /\ UNCHANGED << session_counter, clock, issued, guard_vars, feedback_vars >>

\* _generate_web_response from generate_math_response on: the model call
\* succeeds, or it fails (the client catches the exception) and the answer
\* is extracted locally from the documents: a sentence of theirs, or the
\* fixed text when no answer pattern matches.
GeminiGenerate(r, answers) ==
    /\ req[r].pc = "web_results"
    /\ req[r].web_results.n > 0
    /\ req[r].web_results.well_formed
    /\ \/ req' = [ req EXCEPT ![r] =
                     [ @ EXCEPT !.pc = "extract", !.calls.gemini = @ + 1,
                                !.gemini_success = TRUE ] ]
       \/ \E answer \in answers \cup { AnswerNotStated } :
            req' = [ req EXCEPT ![r] =
                       [ @ EXCEPT !.pc = "outguard", !.calls.gemini = @ + 1,
                                  !.response =
                                      MathResponse(req[r].question, answer, "local_fallback",
                                                   "web_search",
                                                   local_fallback_confidence(req[r].web_results.n),
                                                   req[r].session_id) ] ]
    /\ UNCHANGED << session_counter, clock, issued, guard_vars, feedback_vars >>

\* extract_solution_steps and extract_final_answer: two more model calls; the
\* answer is the model's text, or the fixed text when that call fails.
GeminiExtract(r, answers) ==
    /\ req[r].pc = "extract"
    /\ \E answer \in answers \cup { AnswerNotIdentified } :
         req' = [ req EXCEPT ![r] =
                    [ @ EXCEPT !.pc = "outguard", !.calls.extract = @ + 2,
                               !.response =
                                   MathResponse(req[r].question, answer, "gemini", "web_search",
                                                gemini_confidence, req[r].session_id) ] ]
    /\ UNCHANGED << session_counter, clock, issued, guard_vars, feedback_vars >>

\* process_question, lines 90-116: the answer delivered and the result.
delivered_answer(answer, output_validation) ==
    IF output_validation.sanitized_output # << >>
    THEN output_validation.sanitized_output
    ELSE answer

success_result(rq, output_validation) ==
    LET response == [ rq.response EXCEPT
                        !.answer = delivered_answer(rq.response.answer, output_validation) ]
    IN  [ NoResult EXCEPT !.success = TRUE, !.has_response = TRUE, !.response = response,
                          !.session_id = response.session_id,
                          !.routing_info = [ rq.routing_result EXCEPT !.data = NoData ],
                          !.warnings = rq.input_validation.warnings,
                          !.output_warnings = output_validation.warnings,
                          !.educational_value = output_validation.educational_value ]

\* A variant of step 4 that also enters the answered request into the
\* agent's learning data.
OutputGuard_recording(r) ==
    /\ req[r].pc = "outguard"
    /\ req' = [ req EXCEPT ![r] =
                  IF ~IsString(req[r].response.answer) THEN Fail(@, "output_guardrail")
                  ELSE LET ov == validate_output(req[r].response.answer)
                       IN  [ @ EXCEPT !.pc = "done", !.result = success_result(req[r], ov) ] ]
    /\ systems' = [ systems EXCEPT
                      !["agent"].learning_data =
                          Append(@, [ session_id |-> req[r].session_id ]) ]
    /\ UNCHANGED << session_counter, clock, issued, guard_vars, fb_file, fb_reply, fb_acked >>

\* process_question, step 4: the output guardrail, then the return.  len() of
\* an answer that is not a string raises.
OutputGuard(r) ==
    /\ req[r].pc = "outguard"
    /\ req' = [ req EXCEPT ![r] =
                  IF ~IsString(req[r].response.answer) THEN Fail(@, "output_guardrail")
                  ELSE LET ov == validate_output(req[r].response.answer)
                       IN  [ @ EXCEPT !.pc = "done", !.result = success_result(req[r], ov) ] ]
    /\ UNCHANGED << session_counter, clock, issued, guard_vars, feedback_vars >>

\* The caller has the result; the slot is free for another call.
Return(r) ==
    /\ req[r].pc = "done"
    /\ req' = [ req EXCEPT ![r] = IdleRequest ]
    /\ UNCHANGED << session_counter, clock, issued, guard_vars, feedback_vars >>

-----------------------------------------------------------------------------
(* Specifications *)

\* Spec: calls of process_question one after the other, over the full input
\* alphabet.
PipelineQuestions ==
    { QSimple, QProveEigen, QThreeCategories, QQuoted, QTooLong, QHarmful, NotAString }
PipelineSims == SeqsUpTo(SimValues, MaxDocs)
KBAnswers == { AnswerPlain, << >>, AnswerScript, NotAString }
WebAnswers == { AnswerPlain, AnswerQuoted, AnswerScript, AnswerTooLong }

Pipeline(r, questions, simsets, kb_answers, counts, answers) ==
    \/ Start(r, questions)
    \/ ValidateInput(r)
    \/ RouteDecision(r, simsets)
    \/ GenerateKB(r, kb_answers)
    \/ TavilySearch(r, counts)
    \/ FallbackSearch(r, counts)
    \/ NoDocuments(r)
    \/ MalformedDocuments(r)
    \/ GeminiGenerate(r, answers)
    \/ GeminiExtract(r, answers)
    \/ OutputGuard(r)
    \/ Return(r)

Next ==
    \/ Tick
    \/ Pipeline(1, PipelineQuestions, PipelineSims, KBAnswers, 0..MaxFallbackDocs, WebAnswers)

Spec == Init /\ [][Next]_vars

\* SpecConcurrent: calls of process_question in flight at once on one event
\* loop, over a small input alphabet.  A coroutine keeps the loop until it
\* suspends; the only await of process_question that suspends is the POST of
\* _fallback_search (the vector store, the primary search and the model are
\* called synchronously), so the others run on while a call waits there.
Suspended(rq) == rq.pc \in { "idle", "fallback" }

EventLoopFree(r) == \A o \in Slots \ { r } : Suspended(req[o])

NextConcurrent ==
    \/ Tick
    \/ \E r \in Slots :
         \/ EventLoopFree(r) /\ Start(r, { QSimple, QHarmful })
         \/ EventLoopFree(r) /\ ValidateInput(r)
         \/ EventLoopFree(r) /\ RouteDecision(r, { << >>, << 81 >> })
         \/ EventLoopFree(r) /\ GenerateKB(r, { AnswerPlain })
         \/ EventLoopFree(r) /\ TavilySearch(r, { 0, 1 })
         \/ EventLoopFree(r) /\ FallbackSearch(r, { 0, 1 })
         \/ EventLoopFree(r) /\ NoDocuments(r)
         \/ EventLoopFree(r) /\ MalformedDocuments(r)
         \/ EventLoopFree(r) /\ GeminiGenerate(r, { AnswerPlain })
         \/ EventLoopFree(r) /\ GeminiExtract(r, { AnswerPlain })
         \/ EventLoopFree(r) /\ OutputGuard(r)
         \/ EventLoopFree(r) /\ Return(r)

SpecConcurrent == Init /\ [][NextConcurrent]_vars

\* SpecRoute: _make_routing_decision on every ranked candidate list a vector
\* store may hand back, whatever threshold it applied.
StubScores == { 0, 50, 51, 60, 79, 80, 81, 100 }
MaxStubResults == 2

IsRanked(results) ==
    \A i \in 1..(Len(results) - 1) : results[i].score >= results[i + 1].score

StubResults ==
    { results \in UNION { [ 1..k -> [ id : 1..MaxStubResults, score : StubScores ] ] :
                            k \in 0..MaxStubResults } :
        /\ IsRanked(results)
        /\ \A i \in 1..Len(results) : results[i].id = i }

RouteStub(r) ==
    /\ req[r].pc = "route"
    /\ \E kb_results \in StubResults :
         req' = [ req EXCEPT ![r] = Routed(@, << >>, kb_results) ]
    /\ UNCHANGED << session_counter, clock, issued, guard_vars, feedback_vars >>

NextRoute ==
    \/ Start(1, Questions)
    \/ ValidateInput(1)
    \/ RouteStub(1)

SpecRoute == Init /\ [][NextRoute]_vars

\* SpecGuard: both guardrails on the same text, the text growing by one
\* fragment at a time.
MaxFragments == 3

GuardFragments ==
    { << "bypass" >>, << "cheat" >>, << " " >>, << "the" >>, << "matrix" >>,
      << " ", "x", "=", "2", "+", "2", "-", "4" >>, << LongWord >>, AnswerScript,
      << "javascript", ":" >> }

GuardText(fragments) ==
    /\ guard.n < MaxFragments
    /\ \E f \in fragments :
         LET text == guard.text \o f
         IN  guard' = [ text |-> text, n |-> guard.n + 1, checked |-> TRUE,
                        input |-> validate_input(text),
                        output |-> validate_output(text) ]
    /\ UNCHANGED << session_counter, clock, req, issued, feedback_vars >>

NextGuard == GuardText(GuardFragments)

SpecGuard == Init /\ [][NextGuard]_vars

-----------------------------------------------------------------------------
(* Feedback: src/feedback/dspy_feedback.py *)

\* FeedbackData; question, response and timestamp play no part in what
\* follows and are left out.
FeedbackData(rating, comments, session_id) ==
    [ user_rating |-> rating, user_comments |-> comments, session_id |-> session_id ]

\* A number as Python's true division gives it, kept as the fraction.
Fraction(num, den) == [ num |-> num, den |-> den ]

RECURSIVE SumRatings(_)
SumRatings(entries) ==
    IF entries = << >> THEN 0 ELSE Head(entries).user_rating + SumRatings(Tail(entries))

LastFive(entries) ==
    IF Len(entries) >= 5 THEN SubSeq(entries, Len(entries) - 4, Len(entries)) ELSE entries

\* A variant of get_feedback_summary that averages the recent feedback only.
get_feedback_summary_recent_only(feedback_history) ==
    IF feedback_history = << >>
    THEN [ total_feedback |-> 0, average_rating |-> Fraction(0, 1), recent_feedback |-> << >> ]
    ELSE [ total_feedback |-> Len(feedback_history),
           average_rating |-> Fraction(SumRatings(LastFive(feedback_history)),
                                       Len(LastFive(feedback_history))),
           recent_feedback |-> LastFive(feedback_history) ]

\* MathFeedbackCollector.get_feedback_summary
get_feedback_summary(feedback_history) ==
    IF feedback_history = << >>
    THEN [ total_feedback |-> 0, average_rating |-> Fraction(0, 1), recent_feedback |-> << >> ]
    ELSE [ total_feedback |-> Len(feedback_history),
           average_rating |-> Fraction(SumRatings(feedback_history), Len(feedback_history)),
           recent_feedback |-> LastFive(feedback_history) ]

\* What the evaluator's text says: for each metric the number that follows
\* "metric:" (in hundredths; 0 - 1 when no such number is there), and the
\* words of _identify_improvements it contains.
EvaluationText(accuracy, clarity, completeness, words) ==
    [ accuracy |-> accuracy, clarity |-> clarity, completeness |-> completeness,
      words |-> words ]

NotStated == 0 - 1

\* 'Fallback evaluation: Response appears to be mathematical content.'
FallbackEvaluationText == EvaluationText(NotStated, NotStated, NotStated, { })

\* _extract_score: 0.5 when the metric is not stated; a number above 1 is
\* divided by 10; the result is clamped to [0, 1].  In hundredths, for the
\* stated numbers used (multiples of 0.1).
extract_score(stated) ==
    IF stated = NotStated THEN 50
    ELSE LET score == IF stated > 100 THEN stated \div 10 ELSE stated
         IN  Min(IF score > 0 THEN score ELSE 0, 100)

\* _identify_improvements, in the order of its tests.
identify_improvements(words) ==
    (IF { "step", "missing" } \subseteq words THEN << "add_more_steps" >> ELSE << >>)
    \o (IF { "explanation", "unclear" } \subseteq words
        THEN << "improve_explanation" >> ELSE << >>)
    \o (IF { "answer", "incorrect" } \subseteq words THEN << "fix_answer" >> ELSE << >>)
    \o (IF { "format", "poor" } \subseteq words THEN << "improve_formatting" >> ELSE << >>)

\* The except clause of evaluate_response; failed stands for the
\* evaluation_text "Evaluation failed".
evaluation_failed ==
    [ accuracy |-> 50, clarity |-> 50, completeness |-> 50, overall_score |-> Fraction(50, 1),
      failed |-> TRUE, needs_improvement |-> << "evaluation_error" >> ]

\* evaluate_response once evaluation.evaluation is at hand.
evaluation_of(evaluation_text) ==
    LET accuracy == extract_score(evaluation_text.accuracy)
        clarity == extract_score(evaluation_text.clarity)
        completeness == extract_score(evaluation_text.completeness)
    IN  [ accuracy |-> accuracy, clarity |-> clarity, completeness |-> completeness,
          overall_score |-> Fraction(accuracy + clarity + completeness, 3),
          failed |-> FALSE,
          needs_improvement |-> identify_improvements(evaluation_text.words) ]

\* evaluate_response: without dspy the fixed fallback text is parsed; with it
\* the model answers with a text, or the call raises (outcome "raise").
evaluate_response(dspy, outcome) ==
    IF ~dspy THEN evaluation_of(FallbackEvaluationText)
    ELSE IF outcome.raised THEN evaluation_failed
    ELSE evaluation_of(outcome.text)

\* _generate_improvements: list(set(improvements)), whose order is not
\* fixed; comments stands for the words user_comments.lower() contains.
generate_improvements(learning_entry) ==
    (IF learning_entry.user_rating <= 2
     THEN { "improve_accuracy", "add_more_explanations" } ELSE { })
    \cup (IF learning_entry.evaluation.accuracy < 70
          THEN { "verify_mathematical_correctness" } ELSE { })
    \cup (IF learning_entry.evaluation.clarity < 70 THEN { "simplify_explanations" } ELSE { })
    \cup (IF learning_entry.evaluation.completeness < 70 THEN { "add_more_steps" } ELSE { })
    \cup (IF "confusing" \in learning_entry.user_comments THEN { "improve_clarity" } ELSE { })
    \cup (IF "incomplete" \in learning_entry.user_comments
          THEN { "add_more_details" } ELSE { })
    \cup (IF "wrong" \in learning_entry.user_comments THEN { "verify_solution" } ELSE { })

\* The learning_entry dict process_feedback appends (lines 237-245).
LearningEntry(rating, comments, evaluation, session_id) ==
    [ user_rating |-> rating, user_comments |-> comments, evaluation |-> evaluation,
      session_id |-> session_id ]

\* entry.get("improvements", [])
entry_improvements(entry) ==
    IF "improvements" \in DOMAIN entry THEN entry.improvements ELSE << >>

RECURSIVE AllImprovements(_)
AllImprovements(entries) ==
    IF entries = << >> THEN << >>
    ELSE entry_improvements(Head(entries)) \o AllImprovements(Tail(entries))

\* improvement_counts[improvement] = improvement_counts.get(improvement, 0) + 1;
\* a dict keeps its keys in the order they were first set.
CountOne(counts, tag) ==
    IF \E k \in 1..Len(counts) : counts[k].tag = tag
    THEN [ k \in 1..Len(counts) |->
             IF counts[k].tag = tag
             THEN [ tag |-> tag, count |-> counts[k].count + 1 ] ELSE counts[k] ]
    ELSE Append(counts, [ tag |-> tag, count |-> 1 ])

RECURSIVE ImprovementCounts(_, _)
ImprovementCounts(counts, tags) ==
    IF tags = << >> THEN counts
    ELSE ImprovementCounts(CountOne(counts, Head(tags)), Tail(tags))

\* sorted(..., key=count, reverse=True): stable, so equal counts keep their
\* order.
RECURSIVE InsertByCount(_, _)
InsertByCount(ranked, e) ==
    IF ranked = << >> THEN << e >>
    ELSE IF Head(ranked).count >= e.count
         THEN << Head(ranked) >> \o InsertByCount(Tail(ranked), e)
         ELSE << e >> \o ranked

RECURSIVE SortByCount(_)
SortByCount(counts) ==
    IF counts = << >> THEN << >>
    ELSE InsertByCount(SortByCount(SubSeq(counts, 1, Len(counts) - 1)), counts[Len(counts)])

common_improvements(learning_data) ==
    Take(SortByCount(ImprovementCounts(<< >>, AllImprovements(learning_data))), 5)

\* a > b for two fractions with positive denominators.
GreaterThan(a, b) == a.num * b.den > b.num * a.den

\* A variant of _analyze_recent_trends that reports equal means as improving.
analyze_recent_trends_not_strict(learning_data) ==
    IF Len(learning_data) <= 5 THEN [ trend |-> "insufficient_data" ]
    ELSE LET recent_entries == SubSeq(learning_data, Len(learning_data) - 4, Len(learning_data))
             older_entries == SubSeq(learning_data, 1, Len(learning_data) - 5)
             recent_avg_rating == Fraction(SumRatings(recent_entries), Len(recent_entries))
             older_avg_rating == Fraction(SumRatings(older_entries), Len(older_entries))
         IN  [ trend |-> IF ~GreaterThan(older_avg_rating, recent_avg_rating)
                         THEN "improving" ELSE "declining",
               recent_avg_rating |-> recent_avg_rating,
               previous_avg_rating |-> older_avg_rating ]

\* _analyze_recent_trends
analyze_recent_trends(learning_data) ==
    IF Len(learning_data) < 5 THEN [ trend |-> "insufficient_data" ]
    ELSE LET recent_entries == SubSeq(learning_data, Len(learning_data) - 4, Len(learning_data))
             older_entries == IF Len(learning_data) > 5
                              THEN SubSeq(learning_data, 1, Len(learning_data) - 5)
                              ELSE << >>
         IN  IF older_entries = << >> THEN [ trend |-> "insufficient_data" ]
             ELSE LET recent_avg_rating ==
                          Fraction(SumRatings(recent_entries), Len(recent_entries))
                      older_avg_rating ==
                          Fraction(SumRatings(older_entries), Len(older_entries))
                  IN  [ trend |-> IF GreaterThan(recent_avg_rating, older_avg_rating)
                                  THEN "improving" ELSE "declining",
                        recent_avg_rating |-> recent_avg_rating,
                        previous_avg_rating |-> older_avg_rating ]

RECURSIVE SumScores(_, _)
SumScores(entries, metric) ==
    IF entries = << >> THEN 0
    ELSE Head(entries).evaluation[metric] + SumScores(Tail(entries), metric)

\* MathLearningSystem.get_learning_insights
get_learning_insights(learning_data) ==
    IF learning_data = << >> THEN [ insights |-> "No learning data available" ]
    ELSE [ total_interactions |-> Len(learning_data),
           average_user_rating |-> Fraction(SumRatings(learning_data), Len(learning_data)),
           average_accuracy |->
               Fraction(SumScores(learning_data, "accuracy"), Len(learning_data)),
           average_clarity |->
               Fraction(SumScores(learning_data, "clarity"), Len(learning_data)),
           average_completeness |->
               Fraction(SumScores(learning_data, "completeness"), Len(learning_data)),
           common_improvements |-> common_improvements(learning_data),
           recent_trends |-> analyze_recent_trends(learning_data) ]

\* _load_feedback_history: the history loaded and the file left behind.  A
\* missing, empty or unparseable file is rewritten as "[]" (when the file
\* system refuses the write, the outer except clause takes over); entries
\* that FeedbackData(**item) does not accept raise into the outer except
\* clause, which leaves the file as it is.
load_feedback_history(file, write_ok) ==
    CASE file.kind \in { "missing", "empty", "malformed" } ->
           [ feedback_history |-> << >>,
             file |-> IF write_ok THEN FileOf(<< >>) ELSE file ]
      [] file.kind = "bad_records" -> [ feedback_history |-> << >>, file |-> file ]
      [] OTHER -> [ feedback_history |-> file.records, file |-> file ]

\* What a write of the log can come to: the whole text is written; open()
\* raises and the file is untouched; or open(file, 'w') has truncated the
\* file and json.dump raises before the text is complete.
WriteOutcomes == { "complete", "refused", "interrupted" }

\* _save_feedback_history: the whole history is written over the file; an
\* exception is printed and swallowed.
save_feedback_history(file, feedback_history, write) ==
    CASE write = "complete" -> FileOf(feedback_history)
      [] write = "refused" -> file
      [] write = "interrupted" -> [ kind |-> "malformed", records |-> << >> ]

Reply(op, system, value) ==
    [ op |-> op, system |-> system,
      repeated |-> (op = "insights" /\ fb_reply.op = "insights" /\ fb_reply.system = system),
      value |-> value ]

AllConstructed == \A i \in Systems : systems[i].constructed

\* MathLearningSystem(): the collector loads the log, the evaluator looks for
\* dspy, learning_data starts empty.  main.py builds the agent (and its
\* learning system) first and its own learning system second; dspy is
\* importable for both or for neither.  No exception leaves
\* _load_feedback_history; the reply records whether the file system took
\* writes.
Construct(i, dspys) ==
    /\ ~systems[i].constructed
    /\ i = "main" => systems["agent"].constructed
    /\ \E dspy \in dspys, write_ok \in BOOLEAN :
         LET loaded == load_feedback_history(fb_file, write_ok)
         IN  /\ i = "main" => dspy = systems["agent"].dspy
             /\ systems' = [ systems EXCEPT ![i] =
                    [ constructed |-> TRUE, dspy |-> dspy,
                      feedback_history |-> loaded.feedback_history,
                      learning_data |-> << >> ] ]
             /\ fb_file' = loaded.file
             /\ fb_reply' = Reply("construct", i,
                                  [ raised |-> FALSE, write_ok |-> write_ok ])
    /\ UNCHANGED << session_counter, clock, req, issued, guard_vars, fb_acked >>

\* MathLearningSystem.process_feedback on system i, collect_feedback and
\* _save_feedback_history included.  The session id is the number of the
\* call.
ProcessFeedback(i, ratings, comments, outcomes, writes, limit) ==
    /\ AllConstructed
    /\ Len(fb_acked) < limit
    /\ \E user_rating \in ratings, user_comments \in comments, outcome \in outcomes,
          write \in writes :
         LET session_id == Len(fb_acked) + 1
             feedback == FeedbackData(user_rating, user_comments, session_id)
             feedback_history == Append(systems[i].feedback_history, feedback)
             feedback_result == [ feedback_id |-> Len(feedback_history),
                                  status |-> "collected", rating |-> user_rating ]
             evaluation == evaluate_response(systems[i].dspy, outcome)
             learning_entry ==
                 LearningEntry(user_rating, user_comments, evaluation, session_id)
         IN  /\ systems' = [ systems EXCEPT
                    ![i].feedback_history = feedback_history,
                    ![i].learning_data = Append(systems[i].learning_data, learning_entry) ]
             /\ fb_file' = save_feedback_history(fb_file, feedback_history, write)
             /\ fb_reply' = Reply("process_feedback", i,
                    [ feedback_collected |-> feedback_result, evaluation |-> evaluation,
                      improvements |-> generate_improvements(learning_entry),
                      learning_updated |-> TRUE ])
             /\ fb_acked' = Append(fb_acked, [ system |-> i, feedback |-> feedback,
                                               feedback_id |-> feedback_result.feedback_id ])
    /\ UNCHANGED << session_counter, clock, req, issued, guard_vars >>

\* MathRoutingAgent.collect_feedback, the handler of POST /feedback: a
\* placeholder that answers and touches nothing.
AgentCollectFeedback(ratings) ==
    /\ AllConstructed
    /\ \E rating \in ratings :
         fb_reply' = Reply("collect_feedback", "agent",
                           [ success |-> TRUE, rating |-> rating,
                             feedback_history |-> Len(systems["agent"].feedback_history),
                             learning_data |-> Len(systems["agent"].learning_data) ])
    /\ UNCHANGED << session_counter, clock, req, issued, guard_vars, fb_file, systems,
                    fb_acked >>

\* get_feedback_summary of system i's collector (GET /feedback/summary reads
\* main's).
Summary(i) ==
    /\ AllConstructed
    /\ fb_reply' = Reply("summary", i, get_feedback_summary(systems[i].feedback_history))
    /\ UNCHANGED << session_counter, clock, req, issued, guard_vars, fb_file, systems,
                    fb_acked >>

\* A variant of Insights that consumes the learning data it reports on.
Insights_consuming(i) ==
    /\ AllConstructed
    /\ fb_reply' = Reply("insights", i, get_learning_insights(systems[i].learning_data))
    /\ systems' = [ systems EXCEPT ![i].learning_data = << >> ]
    /\ UNCHANGED << session_counter, clock, req, issued, guard_vars, fb_file, fb_acked >>

\* get_learning_insights of system i (GET /insights reads the agent's).
Insights(i) ==
    /\ AllConstructed
    /\ fb_reply' = Reply("insights", i, get_learning_insights(systems[i].learning_data))
    /\ UNCHANGED << session_counter, clock, req, issued, guard_vars, fb_file, systems,
                    fb_acked >>

\* The two learning systems of the running service over one feedback log.
MaxInteractions == 2

\* What feedback/feedback_history.json can hold when the service starts: nothing
\* (no file), an empty file, text that is not JSON, JSON whose entries are
\* not feedback records, an empty list, a list of records.
InitialLogs ==
    { FileMissing,
      [ kind |-> "empty", records |-> << >> ],
      [ kind |-> "malformed", records |-> << >> ],
      [ kind |-> "bad_records", records |-> << >> ],
      FileOf(<< >>),
      FileOf(<< FeedbackData(4, { }, 0) >>) }

FeedbackRatings == { 1, 5 }

FeedbackComments == { { }, { "confusing" } }

\* What the dspy predictor does when called: it raises, or it answers with a
\* text ("accuracy: 0.8 ... clarity: 9 ... a step is missing").
EvaluatorOutcomes ==
    { [ raised |-> TRUE, text |-> FallbackEvaluationText ],
      [ raised |-> FALSE,
        text |-> EvaluationText(80, 900, NotStated, { "step", "missing" }) ] }

InitFeedback ==
    /\ session_counter = 0
    /\ clock = 0
    /\ req = [ r \in Slots |-> IdleRequest ]
    /\ issued = << >>
    /\ guard = NoGuard
    /\ fb_file \in InitialLogs
    /\ systems = [ i \in Systems |-> NewSystem ]
    /\ fb_reply = NoReply
    /\ fb_acked = << >>

NextFeedback ==
    \/ \E i \in Systems : Construct(i, BOOLEAN)
    \/ \E i \in Systems :
         ProcessFeedback(i, FeedbackRatings, FeedbackComments, EvaluatorOutcomes,
                         WriteOutcomes, MaxInteractions)
    \/ AgentCollectFeedback(FeedbackRatings)
    \/ \E i \in Systems : Summary(i)
    \/ \E i \in Systems : Insights(i)

SpecFeedback == InitFeedback /\ [][NextFeedback]_vars

\* One learning system fed a run of ratings, long enough for the trend.
MaxTrendInteractions == 6

Ratings == 1..5

NextLearning ==
    \/ \E i \in Systems : Construct(i, { FALSE })
    \/ ProcessFeedback("agent", Ratings, { { } }, { [ raised |-> TRUE,
                                                      text |-> FallbackEvaluationText ] },
                       { "complete" }, MaxTrendInteractions)
    \/ Summary("agent")
    \/ Insights("agent")

SpecLearning == Init /\ [][NextLearning]_vars

\* SpecService: the application once started, requests answered while
\* feedback is processed, over a small input alphabet.
NextService ==
    \/ \E i \in Systems : Construct(i, { FALSE })
    \/ ProcessFeedback("agent", FeedbackRatings, { { } },
                       { [ raised |-> TRUE, text |-> FallbackEvaluationText ] },
                       { "complete" }, MaxInteractions)
    \/ AllConstructed /\ Start(1, { QSimple, QHarmful })
    \/ ValidateInput(1)
    \/ RouteDecision(1, { << >>, << 81 >> })
    \/ GenerateKB(1, { AnswerPlain })
    \/ TavilySearch(1, { 0, 1 })
    \/ FallbackSearch(1, { 0, 1 })
    \/ NoDocuments(1)
    \/ MalformedDocuments(1)
    \/ GeminiGenerate(1, { AnswerPlain })
    \/ GeminiExtract(1, { AnswerPlain })
    \/ OutputGuard(1)
    \/ Return(1)

SpecService == Init /\ [][NextService]_vars

-----------------------------------------------------------------------------
(* Properties of the routing policy *)

\* The request in slot r has its routing decision and has not gone further.
Decided(r) == req[r].pc = "generate"

TopScore(kb_results) == IF kb_results = << >> THEN 0 ELSE kb_results[1].score

RECURSIVE MaxOf(_)
MaxOf(sims) ==
    IF sims = << >> THEN 0
    ELSE LET rest == MaxOf(Tail(sims))
         IN  IF Head(sims) > rest THEN Head(sims) ELSE rest

\* C1: whenever the top candidate of the lookup scores above 0.8, the
\* decision is KnowledgeBase, its confidence is that score and its payload
\* is the candidate list, whatever the question.
C1_HighConfidenceMatch ==
    \A r \in Slots :
        (Decided(r) /\ TopScore(req[r].kb_results) > 80)
        => /\ req[r].routing_result.decision = KNOWLEDGE_BASE
           /\ req[r].routing_result.confidence = TopScore(req[r].kb_results)
           /\ req[r].routing_result.data = [ present |-> TRUE, results |-> req[r].kb_results ]

\* A question of every complexity category with a top score of 0.81 got
\* KnowledgeBase with confidence 0.81.
C1_Witness ==
    \E r \in Slots :
        /\ Decided(r)
        /\ req[r].question = QAllCategories
        /\ TopScore(req[r].kb_results) = 81
        /\ req[r].routing_result.decision = KNOWLEDGE_BASE
        /\ req[r].routing_result.confidence = 81

\* C2: a request whose best knowledge-base match scores s, 0.5 < s <= 0.8,
\* and whose question has complexity below 0.6 is routed to KnowledgeBase
\* with confidence s; so is a request whose best match scores 0.6.
C2_ModerateMatch ==
    \A r \in Slots :
        (/\ Decided(r)
         /\ MaxOf(req[r].lookup) > 50
         /\ MaxOf(req[r].lookup) <= 80
         /\ assess_question_complexity(req[r].question) < 60)
        => /\ req[r].routing_result.decision = KNOWLEDGE_BASE
           /\ req[r].routing_result.confidence = MaxOf(req[r].lookup)

\* C3: with no candidate, or a top score of at most 0.5, or a top score in
\* (0.5, 0.8] and a complexity of at least 0.6, the decision is WebSearch with
\* confidence 0.7 and no payload.
C3_Escalation ==
    \A r \in Slots :
        (/\ Decided(r)
         /\ \/ req[r].kb_results = << >>
            \/ TopScore(req[r].kb_results) <= 50
            \/ /\ TopScore(req[r].kb_results) <= 80
               /\ assess_question_complexity(req[r].question) >= 60)
        => /\ req[r].routing_result.decision = WEB_SEARCH
           /\ req[r].routing_result.confidence = 70
           /\ ~req[r].routing_result.data.present

\* A top score of exactly 0.8 with a complexity of exactly 0.6 went to
\* WebSearch.
C3_Witness ==
    \E r \in Slots :
        /\ Decided(r)
        /\ TopScore(req[r].kb_results) = 80
        /\ req[r].question = QThreeCategories
        /\ assess_question_complexity(req[r].question) = 60
        /\ req[r].routing_result.decision = WEB_SEARCH

-----------------------------------------------------------------------------
(* Properties of process_question *)

\* The call in slot r has returned its result.
Done(r) == req[r].pc = "done"

\* The input guardrail has returned is_valid = False for the call in slot r.
InputRejected(r) ==
    req[r].input_validation # NoValidation /\ ~req[r].input_validation.is_valid

\* C5: the routing decision of a request is KnowledgeBase or WebSearch, never
\* Reject; and a request that ends without success and without an exception
\* having been caught is one whose input guardrail returned is_valid = False.
C5_PolicyNeverRejects ==
    \A r \in Slots :
        /\ req[r].routing_result # NoRouting
           => req[r].routing_result.decision \in { KNOWLEDGE_BASE, WEB_SEARCH }
        /\ (Done(r) /\ ~req[r].result.success /\ req[r].raised = "")
           => /\ InputRejected(r)
              /\ req[r].result.error = "Input validation failed"
              /\ ~req[r].result.has_response

\* A request ended rejected, by the input guardrail, before any routing.
C5_Witness ==
    \E r \in Slots :
        /\ Done(r)
        /\ ~req[r].result.success
        /\ ~req[r].result.has_response
        /\ req[r].raised = ""
        /\ InputRejected(r)
        /\ req[r].routing_result = NoRouting

\* C6: once the input guardrail has returned is_valid = False, the request
\* is over with no call to the knowledge base, the web search or the model,
\* and its result is success = False with the guardrail's warnings and no
\* response.
C6_RejectionAborts ==
    \A r \in Slots :
        InputRejected(r)
        => /\ Done(r)
           /\ req[r].calls = NoCalls
           /\ ~req[r].result.success
           /\ req[r].result.warnings = req[r].input_validation.warnings
           /\ req[r].result.warnings # << >>
           /\ ~req[r].result.has_response
           /\ req[r].result.response = NoResponse

\* The harmful question was rejected with a warning and without any call.
C6_Witness ==
    \E r \in Slots :
        /\ Done(r)
        /\ req[r].question = QHarmful
        /\ InputRejected(r)
        /\ req[r].result.warnings # << >>
        /\ req[r].calls = NoCalls

\* The search of the request in slot r has handed well-formed documents (or
\* none) to _generate_web_response.
WebPathTaken(r) ==
    /\ req[r].routing_result.decision = WEB_SEARCH
    /\ req[r].web_results # NoWebResults
    /\ (req[r].web_results.n > 0 => req[r].web_results.well_formed)

\* C7: on the web-search path, whether the primary search raised, the
\* fallback search raised or answered another status than 200, the search
\* gave no documents or the model call failed, the request ends with
\* success = True and a response.
C7_WebFailuresRecovered ==
    \A r \in Slots :
        /\ (Done(r) /\ WebPathTaken(r))
           => (req[r].result.success /\ req[r].result.has_response)
        /\ (WebPathTaken(r) /\ ~Done(r)) => req[r].raised = ""

\* The primary search raised, the fallback gave documents, the model call
\* failed, and the request ended with success = True.
C7_Witness ==
    \E r \in Slots :
        /\ Done(r)
        /\ req[r].calls.tavily = 1
        /\ req[r].calls.mcp = 1
        /\ req[r].web_results.source = "mcp"
        /\ req[r].response.built_by = "local_fallback"
        /\ req[r].result.success
        /\ req[r].result.has_response

C9_ResultCarriesSessionId ==
    \A r \in Slots :
        Done(r)
        => /\ req[r].session_id # NoSession
           /\ req[r].result.session_id = req[r].session_id
           /\ req[r].raised # ""
              => (~req[r].result.success /\ req[r].result.error = "Processing failed")
           /\ req[r].result.has_response
              => req[r].result.response.session_id = req[r].session_id

\* An exception of the output guardrail ended as a failure with the
\* request's session id.
C9_Witness ==
    \E r \in Slots :
        /\ Done(r)
        /\ req[r].raised = "output_guardrail"
        /\ ~req[r].result.success
        /\ req[r].session_id # NoSession
        /\ req[r].result.session_id = req[r].session_id

\* C10: the ids issued so far are pairwise different, the i-th id carries
\* the counter value i, one id has been issued per counter step, and the
\* requests in flight hold different ids.
C10_SessionIdsUnique ==
    /\ Len(issued) = session_counter
    /\ \A i \in 1..Len(issued) : issued[i][1] = i
    /\ \A i, j \in 1..Len(issued) : i # j => issued[i] # issued[j]
    /\ \A r, o \in Slots :
         (r # o /\ req[r].pc # "idle" /\ req[o].pc # "idle")
         => req[r].session_id # req[o].session_id

\* Two requests are in flight, started within the same second, one waiting
\* for the fallback search and the other past its routing.
C10_Witness ==
    \E r, o \in Slots :
        /\ r # o
        /\ req[r].pc = "fallback"
        /\ req[o].pc = "outguard"
        /\ req[r].session_id[2] = req[o].session_id[2]
        /\ req[r].session_id # req[o].session_id

-----------------------------------------------------------------------------
(* Properties of the guardrails *)

\* C11: validate_input returns is_valid = False exactly for a text longer
\* than the maximum or matching a deny-list pattern, and then with an empty
\* sanitized text, confidence 0 and no topic; every other text is valid,
\* with or without warnings.
C11_HardRejectsOnly ==
    guard.checked
    => /\ guard.input.is_valid
          = ~(TextLen(guard.text) > 1000 \/ potentially_harmful(guard.text))
       /\ ~guard.input.is_valid
          => /\ guard.input.sanitized_input = << >>
             /\ guard.input.confidence_score = 0
             /\ guard.input.detected_topic = ""

\* A text of weak math-likelihood was accepted with a warning.
C11_Witness ==
    /\ guard.checked
    /\ guard.text = << "the" >>
    /\ guard.input.is_valid
    /\ guard.input.warnings # << >>
    /\ guard.input.detected_topic = "general"

\* C12: a text the input guardrail rejects for an unsafe pattern is rejected
\* by the output guardrail as an answer, and a text the output guardrail
\* rejects for an unsafe pattern is rejected by the input guardrail.
C12_SameDenyList ==
    guard.checked
    => /\ (TextLen(guard.text) <= 1000 /\ potentially_harmful(guard.text))
          => ~guard.output.is_valid
       /\ (TextLen(guard.text) <= 2000 /\ inappropriate(guard.text))
          => ~guard.input.is_valid

-----------------------------------------------------------------------------
(* Properties of the feedback store and the learning system *)

\* C13: a rating acknowledged by MathRoutingAgent.collect_feedback (POST
\* /feedback) adds exactly one record to the agent's feedback history and
\* exactly one interaction to its learning data.
C13_RatingFlowsIn ==
    [][ fb_reply'.op = "collect_feedback" =>
          /\ Len(systems'["agent"].feedback_history)
               = Len(systems["agent"].feedback_history) + 1
          /\ Len(systems'["agent"].learning_data)
               = Len(systems["agent"].learning_data) + 1 ]_vars

AckedFeedback == [ k \in 1..Len(fb_acked) |-> fb_acked[k].feedback ]

\* C14: on a collector that started with an empty history, after N
\* acknowledged records the summary reports total N and an average equal to
\* the sum of the N ratings over N (0 when N = 0), and every record was
\* acknowledged with its 1-based position in the history and in the log.
C14_SummaryRoundTrip ==
    /\ fb_reply.op = "summary" =>
         /\ fb_reply.value.total_feedback = Len(fb_acked)
         /\ fb_reply.value.average_rating.num * Len(fb_acked)
              = SumRatings(AckedFeedback) * fb_reply.value.average_rating.den
         /\ Len(fb_acked) = 0 => fb_reply.value.average_rating.num = 0
    /\ \A k \in 1..Len(fb_acked) :
         /\ fb_acked[k].feedback_id = k
         /\ systems["agent"].feedback_history[k] = fb_acked[k].feedback
         /\ fb_file.records[k] = fb_acked[k].feedback

C14_Witness ==
    /\ fb_reply.op = "summary"
    /\ fb_reply.value.total_feedback = 6
    /\ fb_reply.value.average_rating = Fraction(26, 6)
    /\ fb_acked[1].feedback.user_rating = 1

Unusable == { "missing", "empty", "malformed", "bad_records" }

\* C15: whatever unusable log a collector finds when constructed (missing,
\* empty, not JSON, JSON whose entries are not feedback records), with a file
\* system that takes writes, loading does not raise, the history is empty and
\* the log has been reset to an empty list.
C15_StartupRecovery ==
    [][ ( /\ fb_reply'.op = "construct"
          /\ fb_reply'.value.write_ok
          /\ fb_file.kind \in Unusable )
        => /\ ~fb_reply'.value.raised
           /\ systems'[fb_reply'.system].feedback_history = << >>
           /\ fb_file' = FileOf(<< >>) ]_vars

Logged(file, feedback) == \E j \in 1..Len(file.records) : file.records[j] = feedback

\* C16: an acknowledged record that is in the persisted log is still in it
\* after every later write that ran to its end, whichever of the two
\* collectors writes.
C16_LogAppendOnly ==
    [][ fb_file'.kind = "json" =>
          \A k \in 1..Len(fb_acked) :
            Logged(fb_file, fb_acked[k].feedback) => Logged(fb_file', fb_acked[k].feedback) ]_vars

LowRated(learning_data) == { k \in 1..Len(learning_data) : learning_data[k].user_rating <= 2 }

\* C17: once an interaction rated 2 or lower is recorded, the common
\* improvements reported by get_learning_insights count the tag
\* "improve_accuracy" (derived for exactly the interactions rated 2 or lower)
\* once per such interaction.
C17_TallyCountsTags ==
    ( /\ fb_reply.op = "insights"
      /\ LowRated(systems[fb_reply.system].learning_data) # { } )
    => \E j \in 1..Len(fb_reply.value.common_improvements) :
         fb_reply.value.common_improvements[j]
           = [ tag |-> "improve_accuracy",
               count |-> Cardinality(LowRated(systems[fb_reply.system].learning_data)) ]

\* The trend the ratings acknowledged so far call for: the last five
\* against all the earlier ones, means compared by cross-multiplication.
ExpectedTrend ==
    LET n == Len(fb_acked)
        last_five == SumRatings(SubSeq(AckedFeedback, n - 4, n))
        earlier == SumRatings(SubSeq(AckedFeedback, 1, n - 5))
    IN  IF n <= 5 THEN "insufficient_data"
        ELSE IF last_five * (n - 5) > earlier * 5 THEN "improving" ELSE "declining"

\* C18: the trend is insufficient_data up to 5 interactions; beyond 5 it is
\* improving exactly when the mean rating of the last 5 is strictly greater
\* than the mean of the earlier ones, declining otherwise; get_learning_insights
\* reports that trend.
C18_TrendClassification ==
    /\ analyze_recent_trends(systems["agent"].learning_data).trend = ExpectedTrend
    /\ (fb_reply.op = "insights" /\ fb_acked # << >>) =>
         fb_reply.value.recent_trends.trend = ExpectedTrend
    /\ [ k \in 1..Len(fb_acked) |-> fb_acked[k].feedback.user_rating ] = << 1, 5, 5, 5, 5, 5 >>
         => ExpectedTrend = "improving"
    /\ [ k \in 1..Len(fb_acked) |-> fb_acked[k].feedback.user_rating ] = << 3, 3, 3, 3, 3, 3 >>
         => ExpectedTrend = "declining"

C18_Witness ==
    /\ fb_reply.op = "insights"
    /\ [ k \in 1..Len(fb_acked) |-> fb_acked[k].feedback.user_rating ] = << 1, 5, 5, 5, 5, 5 >>
    /\ fb_reply.value.recent_trends.trend = "improving"

\* C19: get_learning_insights changes neither the learning data nor the
\* feedback history (in memory or in the log), and called again with no
\* interaction recorded in between it returns what it returned before.
C19_InsightsReadOnly ==
    [][ fb_reply'.op = "insights" =>
          /\ systems' = systems
          /\ fb_file' = fb_file
          /\ fb_reply'.repeated => fb_reply'.value = fb_reply.value ]_vars

C19_Witness ==
    /\ fb_reply.op = "insights"
    /\ fb_reply.repeated
    /\ Len(systems["agent"].learning_data) = 6
    /\ fb_reply.value.total_interactions = 6
    /\ fb_reply.value.recent_trends.trend = "declining"

\* C20: an evaluation made without dspy, or one whose call or parsing
\* failed, scores accuracy, clarity and completeness 0.5, has overall score
\* 0.5 and carries the tag "evaluation_error".
C20_NeutralFallback ==
    ( /\ fb_reply.op = "process_feedback"
      /\ \/ ~systems[fb_reply.system].dspy
         \/ fb_reply.value.evaluation.failed )
    => /\ fb_reply.value.evaluation.accuracy = 50
       /\ fb_reply.value.evaluation.clarity = 50
       /\ fb_reply.value.evaluation.completeness = 50
       /\ fb_reply.value.evaluation.overall_score.num
            = 50 * fb_reply.value.evaluation.overall_score.den
       /\ fb_reply.value.evaluation.needs_improvement = << "evaluation_error" >>

-----------------------------------------------------------------------------
(* Further properties of process_question *)

\* A score in hundredths lies in [0, 1].
InUnit(score) == score >= 0 /\ score <= 100

\* C21: with similarity scores in [0, 1], the input guardrail's confidence,
\* the complexity score, the routing confidence, the output guardrail's
\* confidence and educational value and the response's confidence all lie in
\* [0, 1]; a response built locally after the model call failed has
\* confidence min(0.8, 0.2 * number of documents).
C21_ScoresInUnitInterval ==
    \A r \in Slots :
        /\ InUnit(req[r].input_validation.confidence_score)
        /\ IsString(req[r].question) => InUnit(assess_question_complexity(req[r].question))
        /\ InUnit(req[r].routing_result.confidence)
        /\ InUnit(req[r].response.confidence)
        /\ IsString(req[r].response.answer) =>
             /\ InUnit(validate_output(req[r].response.answer).confidence_score)
             /\ InUnit(validate_output(req[r].response.answer).educational_value)
        /\ InUnit(req[r].result.educational_value)
        /\ InUnit(req[r].result.response.confidence)
        /\ InUnit(req[r].result.routing_info.confidence)
        /\ req[r].response.built_by = "local_fallback" =>
             req[r].response.confidence
               = (IF 20 * req[r].web_results.n < 80 THEN 20 * req[r].web_results.n ELSE 80)

\* Five documents from the fallback search, the model call failed: the
\* result carries confidence 0.8.
C21_Witness ==
    \E r \in Slots :
        /\ Done(r)
        /\ req[r].result.success
        /\ req[r].response.built_by = "local_fallback"
        /\ req[r].web_results.n = 5
        /\ req[r].result.response.confidence = 80
        /\ req[r].input_validation.confidence_score > 0

\* C22: a request decided KnowledgeBase never calls the web search or the
\* model and its response has source knowledge_base; the web search and the
\* model are called only in requests decided WebSearch, the model only once
\* the search has returned at least one document.
C22_BranchesExclusive ==
    \A r \in Slots :
        /\ req[r].routing_result.decision = KNOWLEDGE_BASE
           => /\ req[r].calls.tavily = 0 /\ req[r].calls.mcp = 0
              /\ req[r].calls.gemini = 0 /\ req[r].calls.extract = 0
              /\ req[r].response # NoResponse => req[r].response.source = "knowledge_base"
              /\ req[r].result.has_response => req[r].result.response.source = "knowledge_base"
        /\ req[r].calls.tavily + req[r].calls.mcp + req[r].calls.gemini + req[r].calls.extract > 0
           => req[r].routing_result.decision = WEB_SEARCH
        /\ req[r].calls.gemini + req[r].calls.extract > 0
           => /\ req[r].web_results # NoWebResults
              /\ req[r].web_results.n >= 1

\* A request answered from the knowledge base, after the lookup alone.
C22_Witness ==
    \E r \in Slots :
        /\ Done(r)
        /\ req[r].result.success
        /\ req[r].routing_result.decision = KNOWLEDGE_BASE
        /\ req[r].result.response.source = "knowledge_base"
        /\ req[r].calls = [ NoCalls EXCEPT !.kb = 1 ]

\* C23: within one request the knowledge-base lookup, the primary search,
\* the fallback search and the model's completion are each called at most
\* once; the fallback search is called only after the primary one, and a
\* local answer follows the one failed completion.
C23_NoRetries ==
    \A r \in Slots :
        /\ req[r].calls.kb <= 1
        /\ req[r].calls.tavily <= 1
        /\ req[r].calls.mcp <= 1
        /\ req[r].calls.gemini <= 1
        /\ req[r].calls.mcp = 1 => req[r].calls.tavily = 1
        /\ req[r].response.built_by = "local_fallback"
           => req[r].calls.gemini = 1 /\ req[r].calls.extract = 0

\* Every backend failed once in one request: the lookup gave nothing, the
\* primary search raised, the fallback search gave documents, the
\* completion failed, and the answer was built locally.
C23_Witness ==
    \E r \in Slots :
        /\ Done(r)
        /\ req[r].result.success
        /\ req[r].calls = [ kb |-> 1, tavily |-> 1, mcp |-> 1, gemini |-> 1, extract |-> 0 ]
        /\ req[r].web_results.source = "mcp"
        /\ req[r].response.built_by = "local_fallback"

\* C24: the text the knowledge base is searched with, and the text whose
\* complexity is assessed, is the input guardrail's sanitized text.
C24_SanitizedQuery ==
    \A r \in Slots :
        req[r].calls.kb > 0
        => /\ req[r].kb_query = req[r].input_validation.sanitized_input
           /\ assess_question_complexity(req[r].kb_query)
                = assess_question_complexity(req[r].input_validation.sanitized_input)

-----------------------------------------------------------------------------
(* Further properties of the guardrails *)

TopicHits(text) == [ i \in 1..Len(topic_order) |-> topic_score(text, topic_order[i]) ]

\* C25: for an accepted text the detected topic is general when no topic
\* keyword occurs in it, and otherwise the first topic in table order with
\* the highest number of keywords found; a topic outside the allow-list
\* comes with a warning, and the text stays accepted.
C25_TopicClassification ==
    (guard.checked /\ guard.input.is_valid)
    => LET hits == TopicHits(guard.input.sanitized_input)
       IN  /\ (\A i \in 1..Len(hits) : hits[i] = 0) => guard.input.detected_topic = "general"
           /\ \A i \in 1..Len(hits) :
                ( /\ hits[i] > 0
                  /\ \A j \in 1..Len(hits) : hits[j] <= hits[i]
                  /\ \A j \in 1..(i - 1) : hits[j] < hits[i] )
                => guard.input.detected_topic = topic_order[i]
           /\ guard.input.detected_topic \notin (allowed_topics \cup { "general" })
                => guard.input.warnings # << >>

-----------------------------------------------------------------------------
(* Properties of the web search *)

\* C26: the fallback search runs only after the primary search raised,
\* never after it returned (with documents or without); when the fallback
\* search fails as well the search result is the empty list and no exception
\* has been raised into _generate_web_response.
C26_PrimaryThenFallback ==
    \A r \in Slots :
        /\ req[r].pc = "fallback"
           => /\ req[r].web_results = NoWebResults
              /\ req[r].calls.tavily = 1
              /\ req[r].calls.mcp = 0
        /\ req[r].web_results.source = "tavily" => req[r].calls.mcp = 0
        /\ req[r].calls.mcp > 0
           => /\ req[r].calls.tavily = 1
              /\ req[r].web_results.source \in { "mcp", "mcp_status", "mcp_error" }
        /\ req[r].web_results.source \in { "mcp_status", "mcp_error" }
           => /\ req[r].web_results.n = 0
              /\ req[r].raised = ""
              /\ req[r].pc \in { "web_results", "outguard", "done" }

\* Both searches failed and the request went on with an empty result list
\* to the apology response.
C26_Witness ==
    \E r \in Slots :
        /\ Done(r)
        /\ req[r].calls.tavily = 1
        /\ req[r].calls.mcp = 1
        /\ req[r].web_results = [ n |-> 0, source |-> "mcp_error", well_formed |-> TRUE ]
        /\ req[r].raised = ""
        /\ req[r].response.built_by = "no_results"

-----------------------------------------------------------------------------
(* Further properties of the feedback store *)

\* C27: a log that is a valid JSON list is a valid JSON list after every
\* record operation, however the write of that operation went.
C27_LogAlwaysValid ==
    [][ (fb_reply'.op = "process_feedback" /\ fb_file.kind = "json")
        => fb_file'.kind = "json" ]_vars

-----------------------------------------------------------------------------
(* Properties of the delivered result *)

\* The output guardrail rejects the answer outright: too long, or matching
\* an inappropriate pattern.
HardRejected(answer) ==
    /\ IsString(answer)
    /\ \/ TextLen(answer) > max_output_length
       \/ inappropriate(answer)

\* C28: an answer the output guardrail rejects for its length or for an
\* inappropriate pattern is not returned with success = True.
C28_RejectedAnswerWithheld ==
    \A r \in Slots :
        (Done(r) /\ req[r].response # NoResponse /\ HardRejected(req[r].response.answer))
        => ~( /\ req[r].result.success
              /\ req[r].result.response.answer = req[r].response.answer )

\* C29: in every successful result the response's source is the routing
\* decision, knowledge_base or web_search; the response's session id is the
\* result's; a KnowledgeBase decision carries a non-empty candidate list and
\* gives the response its confidence; a WebSearch decision carries no
\* payload.
C29_ResultConsistent ==
    \A r \in Slots :
        (Done(r) /\ req[r].result.success)
        => /\ req[r].result.has_response
           /\ req[r].result.routing_info.decision \in { KNOWLEDGE_BASE, WEB_SEARCH }
           /\ req[r].result.routing_info.decision = req[r].routing_result.decision
           /\ req[r].result.response.source = req[r].result.routing_info.decision
           /\ req[r].result.response.session_id = req[r].result.session_id
           /\ req[r].result.session_id = req[r].session_id
           /\ req[r].routing_result.decision = KNOWLEDGE_BASE
              => /\ req[r].routing_result.data.present
                 /\ req[r].routing_result.data.results # << >>
                 /\ req[r].result.response.confidence = req[r].result.routing_info.confidence
           /\ req[r].routing_result.decision = WEB_SEARCH
              => ~req[r].routing_result.data.present

\* A successful result from the knowledge base with the top candidate's
\* score 0.81 as its confidence.
C29_Witness ==
    \E r \in Slots :
        /\ Done(r)
        /\ req[r].result.success
        /\ req[r].result.routing_info.decision = KNOWLEDGE_BASE
        /\ req[r].result.response.source = "knowledge_base"
        /\ req[r].routing_result.data.results # << >>
        /\ req[r].result.response.confidence = 81
        /\ req[r].result.session_id = req[r].session_id

\* C30: no step of process_question changes the feedback history of either
\* learning system, the learning data or the persisted log; of the agent's
\* own state it changes the session counter only.
C30_RequestLeavesFeedback ==
    [][ req' # req =>
          /\ fb_file' = fb_file
          /\ systems' = systems
          /\ fb_acked' = fb_acked
          /\ session_counter' # session_counter => req'[1].pc = "validate" ]_vars

\* A second request answered with success while the agent's learning
\* system holds an interaction and the log its record.
C30_Witness ==
    /\ Done(1)
    /\ req[1].result.success
    /\ session_counter = 2
    /\ Len(systems["agent"].learning_data) = 1
    /\ Len(systems["agent"].feedback_history) = 1
    /\ fb_file = FileOf(systems["agent"].feedback_history)

====
